---- MODULE Spec2Model ----
(***************************************************************************)
(* The user-activity audit log of task-flow: the userLogController         *)
(* handlers (createUserLog, getUserLogs, deleteUserLog, deleteMultipleLogs,*)
(* getUserLogStats) over the UserLog collection.  Every handler is a       *)
(* sequence of steps separated by its awaits; a step is the store call     *)
(* that the await waits for followed by the synchronous code up to the     *)
(* next await.                                                             *)
(***************************************************************************)
EXTENDS Integers, Sequences, FiniteSets, TLC

VARIABLES
    clock,   \* the wall clock read by new Date() and Date.now()
    users,   \* the User collection: userId -> [email, role]
    logs,    \* the UserLog collection: a set of documents
    nextId,  \* the next _id the store hands out
    pc,      \* per handler: the await it is suspended at
    req,     \* per handler: the request (body, query, params)
    loc,     \* per handler: its local variables
    resp     \* per handler: the response it sent

vars == <<clock, users, logs, nextId, pc, req, loc, resp>>

(***************************************************************************)
(* Bounds of the model.                                                    *)
(***************************************************************************)
MaxClock == 2         \* the clock runs from 0 to MaxClock
MaxLogs == 3          \* events recorded in the writer's and the pager's runs
MaxFilterLogs == 2    \* events recorded in the filter's runs
MaxStatsLogs == 2     \* events recorded in the runs of the statistics

(***************************************************************************)
(* Values.  A nullable field holds Null or a one-element set.              *)
(***************************************************************************)
Null == {}
Some(v) == {v}
Val(s) == CHOOSE v \in s : TRUE

Procs == {"h1", "h2"}
SeqProcs == {"h1"}

NoReq == [op |-> "none"]
NoLoc == [at |-> "none"]
NoResp == [status |-> 0]

\* Strings that are searched are sequences of characters.
EmailU1 == <<"a", ".", "b">>
EmailU2 == <<"A", "x", "b">>
Ip1 == <<"1", ".", "1">>

UserIds == {"u1", "u2", "u3"}
InitUsers == [u \in {"u1", "u2"} |->
                IF u = "u1" THEN [email |-> EmailU1, role |-> "admin"]
                            ELSE [email |-> EmailU2, role |-> "user"]]

\* Request bodies of POST /create; "" and <<>> are a missing (falsy) field.
Bodies ==
    [userId : UserIds \cup {""},
     action : {"login", "logout", "register", "password_reset", "delete", ""},
     ipAddress : {Ip1, <<>>},
     tokenName : {""},
     userAgent : {""},
     header : {"Mozilla"}]

(***************************************************************************)
(* UserLogSchema                                                           *)
(***************************************************************************)
RoleEnum == {"user", "admin"}
ActionEnum == {"login", "logout", "register", "password_reset"}

\* The schema's defaults for the fields logData leaves out.
SchemaDefaults(logData) ==
    [userId |-> logData.userId,
     username |-> logData.username,
     role |-> logData.role,
     action |-> logData.action,
     loginTime |-> logData.loginTime,
     logoutTime |-> logData.logoutTime,
     ipAddress |-> logData.ipAddress,
     tokenName |-> IF logData.tokenName = "" THEN "N/A" ELSE logData.tokenName,
     userAgent |-> IF logData.userAgent = "" THEN "Unknown" ELSE logData.userAgent,
     sessionDuration |-> logData.sessionDuration]

\* The validators run by save(): required fields and enums.
SchemaValid(doc) ==
    /\ doc.userId # ""
    /\ doc.username # <<>>
    /\ doc.role \in RoleEnum
    /\ doc.action \in ActionEnum
    /\ doc.ipAddress # <<>>

(***************************************************************************)
(* createUserLog                                                           *)
(***************************************************************************)
Respond(p, r) ==
    /\ pc' = [pc EXCEPT ![p] = "done"]
    /\ resp' = [resp EXCEPT ![p] = r]

\* A required-field check that forgets ipAddress.
CreateMissingFieldsNoIp(body) ==
    body.userId = "" \/ body.action = ""

\* Lines 9-18: the required-field check, then the await of User.findById.
CreateMissingFields(body) ==
    body.userId = "" \/ body.action = "" \/ body.ipAddress = <<>>

CreateUserLogStart(p, body) ==
    /\ pc[p] = "idle"
    /\ req' = [req EXCEPT ![p] = [op |-> "createUserLog"] @@ body]
    /\ IF CreateMissingFields(body)
          THEN /\ Respond(p, [status |-> 400])
               /\ loc' = [loc EXCEPT ![p] = [at |-> "validate", userLookups |-> 0]]
          ELSE /\ pc' = [pc EXCEPT ![p] = "findUser"]
               /\ loc' = [loc EXCEPT ![p] = [at |-> "findUser", userLookups |-> 0]]
               /\ UNCHANGED resp
    /\ UNCHANGED <<clock, users, logs, nextId>>

\* Lines 26-34: logData from the user found and the request.
LogData(user, userId, body) ==
    [userId |-> userId,
     username |-> user.email,
     role |-> user.role,
     action |-> body.action,
     ipAddress |-> body.ipAddress,
     tokenName |-> IF body.tokenName # "" THEN body.tokenName ELSE "N/A",
     userAgent |-> IF body.userAgent # "" THEN body.userAgent
                   ELSE IF body.header # "" THEN body.header ELSE "Unknown",
     loginTime |-> Null,
     logoutTime |-> Null,
     sessionDuration |-> Null]

\* new UserLog(logData) followed by save(): the timestamps option stamps
\* createdAt and updatedAt when save() is called.
NewUserLog(logData, now) ==
    [createdAt |-> now, updatedAt |-> now] @@ SchemaDefaults(logData)

\* A stamping that sets loginTime on every event.
StampTimesAlways(logData, now) ==
    IF logData.action = "logout" THEN [logData EXCEPT !.logoutTime = Some(now)]
    ELSE [logData EXCEPT !.loginTime = Some(now)]

\* Lines 36-39: loginTime on a login, logoutTime on a logout.
StampTimes(logData, now) ==
    IF logData.action = "login" THEN [logData EXCEPT !.loginTime = Some(now)]
    ELSE IF logData.action = "logout" THEN [logData EXCEPT !.logoutTime = Some(now)]
    ELSE logData

\* What the catch block (lines 61-67) answers: a rejected store call, or the
\* ValidationError of save().
StoreError == [status |-> 500, error |-> "Error"]
ValidationError == [status |-> 500, error |-> "ValidationError"]

\* Lines 18-39 and 52-53: User.findById resolves; the code runs to the next await.
CreateUserLogFindUser(p) ==
    /\ pc[p] = "findUser"
    /\ \E fault \in BOOLEAN :
          LET body == req[p]
              lookups == loc[p].userLookups + 1
          IN  IF fault
                 THEN /\ Respond(p, StoreError)
                      /\ loc' = [loc EXCEPT ![p] = [at |-> "findUser", userLookups |-> lookups]]
              ELSE IF body.userId \notin DOMAIN users
                 THEN /\ Respond(p, [status |-> 404])
                      /\ loc' = [loc EXCEPT ![p] = [at |-> "findUser", userLookups |-> lookups]]
              ELSE LET logData == StampTimes(LogData(users[body.userId], body.userId, body),
                                             clock)
                   IN  IF body.action = "logout"
                          THEN /\ pc' = [pc EXCEPT ![p] = "findLogin"]
                               /\ loc' = [loc EXCEPT ![p] =
                                     [at |-> "findLogin", userLookups |-> lookups,
                                      logData |-> logData]]
                               /\ UNCHANGED resp
                          ELSE /\ pc' = [pc EXCEPT ![p] = "save"]
                               /\ loc' = [loc EXCEPT ![p] =
                                     [at |-> "save", userLookups |-> lookups,
                                      lastLoginLog |-> Null,
                                      userLog |-> NewUserLog(logData, clock)]]
                               /\ UNCHANGED resp
    /\ UNCHANGED <<clock, users, logs, nextId, req>>

\* Lines 41-45: the documents findOne(...).sort({loginTime: -1}) may return:
\* the logins of the user with the greatest loginTime (null sorts lowest).
LoginKey(l) == IF l.loginTime = Null THEN -1 ELSE Val(l.loginTime)

\* A lookup sorted the wrong way: the oldest login of the user.
LastLoginLogsAscending(userId) ==
    LET cand == {l \in logs : l.userId = userId /\ l.action = "login"}
    IN  {l \in cand : \A m \in cand : LoginKey(l) <= LoginKey(m)}

\* A lookup that passes over the logins a later logout has been linked to.
LastLoginLogsUnused(userId) ==
    LET cand == {l \in logs : /\ l.userId = userId /\ l.action = "login"
                              /\ \A o \in logs :
                                    (o.userId = userId /\ o.action = "logout") => o.id < l.id}
    IN  {l \in cand : \A m \in cand : LoginKey(m) <= LoginKey(l)}

LastLoginLogs(userId) ==
    LET cand == {l \in logs : l.userId = userId /\ l.action = "login"}
    IN  {l \in cand : \A m \in cand : LoginKey(m) <= LoginKey(l)}

\* A duration computed without the check that a login was found.
SessionDurationUnchecked(lastLoginLog, now) ==
    IF lastLoginLog # Null /\ Val(lastLoginLog).loginTime # Null
       THEN Some(now - Val(Val(lastLoginLog).loginTime))
       ELSE Some(now)

\* Lines 47-49.
SessionDuration(lastLoginLog, now) ==
    IF lastLoginLog # Null /\ Val(lastLoginLog).loginTime # Null
       THEN Some(now - Val(Val(lastLoginLog).loginTime))
       ELSE Null

\* Lines 41-53: UserLog.findOne resolves; the code runs to the await of save().
CreateUserLogFindLogin(p) ==
    /\ pc[p] = "findLogin"
    /\ \E fault \in BOOLEAN :
          IF fault
             THEN /\ Respond(p, StoreError)
                  /\ UNCHANGED loc
             ELSE \E lastLoginLog \in
                       IF LastLoginLogs(req[p].userId) = {} THEN {Null}
                       ELSE {Some(l) : l \in LastLoginLogs(req[p].userId)} :
                     /\ pc' = [pc EXCEPT ![p] = "save"]
                     /\ loc' = [loc EXCEPT ![p] =
                           [at |-> "save", userLookups |-> loc[p].userLookups,
                            lastLoginLog |-> lastLoginLog,
                            userLog |-> NewUserLog(
                                [loc[p].logData EXCEPT
                                    !.sessionDuration = SessionDuration(lastLoginLog, clock)],
                                clock)]]
                     /\ UNCHANGED resp
    /\ UNCHANGED <<clock, users, logs, nextId, req>>

\* A save that also closes the login the logout was linked to, by writing
\* the logout's time into it.
CreateUserLogSaveClosingLogin(p) ==
    /\ pc[p] = "save"
    /\ SchemaValid(loc[p].userLog)
    /\ LET saved == [id |-> nextId] @@ loc[p].userLog
           closed == {IF Some(d) = loc[p].lastLoginLog
                         THEN [d EXCEPT !.logoutTime = saved.logoutTime,
                                        !.updatedAt = saved.createdAt]
                         ELSE d : d \in logs}
       IN  /\ logs' = closed \cup {saved}
           /\ nextId' = nextId + 1
           /\ Respond(p, [status |-> 201, data |-> saved])
    /\ UNCHANGED <<clock, users, req, loc>>

\* Lines 53-67: save() validates and inserts; 201 with the document, or the
\* catch block's 500.
\* A save that links the logout to the latest login in the store at the
\* time of the write.
CreateUserLogSaveRelinking(p) ==
    /\ pc[p] = "save"
    /\ \E fault \in BOOLEAN :
          IF ~SchemaValid(loc[p].userLog)
             THEN /\ Respond(p, ValidationError)
                  /\ UNCHANGED <<logs, nextId>>
          ELSE IF fault
             THEN /\ Respond(p, StoreError)
                  /\ UNCHANGED <<logs, nextId>>
             ELSE \E last \in IF req[p].action = "logout" /\ LastLoginLogs(req[p].userId) # {}
                                 THEN {Some(l) : l \in LastLoginLogs(req[p].userId)}
                                 ELSE {Null} :
                     LET saved == [id |-> nextId]
                                     @@ [loc[p].userLog EXCEPT !.sessionDuration =
                                            IF req[p].action = "logout"
                                               THEN SessionDuration(last, loc[p].userLog.createdAt)
                                               ELSE @]
                     IN  /\ logs' = logs \cup {saved}
                         /\ nextId' = nextId + 1
                         /\ Respond(p, [status |-> 201, data |-> saved])
    /\ UNCHANGED <<clock, users, req, loc>>

\* A save that has written the document when the store reports its failure.
CreateUserLogSaveWritingOnError(p) ==
    /\ pc[p] = "save"
    /\ \E fault \in BOOLEAN :
          IF ~SchemaValid(loc[p].userLog)
             THEN /\ Respond(p, ValidationError)
                  /\ UNCHANGED <<logs, nextId>>
             ELSE LET saved == [id |-> nextId] @@ loc[p].userLog
                  IN  /\ logs' = logs \cup {saved}
                      /\ nextId' = nextId + 1
                      /\ Respond(p, IF fault THEN StoreError
                                    ELSE [status |-> 201, data |-> saved])
    /\ UNCHANGED <<clock, users, req, loc>>

CreateUserLogSave(p) ==
    /\ pc[p] = "save"
    /\ \E fault \in BOOLEAN :
          IF ~SchemaValid(loc[p].userLog)
             THEN /\ Respond(p, ValidationError)
                  /\ UNCHANGED <<logs, nextId>>
          ELSE IF fault
             THEN /\ Respond(p, StoreError)
                  /\ UNCHANGED <<logs, nextId>>
             ELSE LET saved == [id |-> nextId] @@ loc[p].userLog
                  IN  /\ logs' = logs \cup {saved}
                      /\ nextId' = nextId + 1
                      /\ Respond(p, [status |-> 201, data |-> saved])
    /\ UNCHANGED <<clock, users, req, loc>>

(***************************************************************************)
(* getUserLogs                                                             *)
(***************************************************************************)
DefaultPage == 1
DefaultLimit == 50

\* A numeric query parameter arrives as a string of decimal digits; <<>> is
\* a parameter that was not given.
DigitValue(c) ==
    CASE c = "0" -> 0 [] c = "1" -> 1 [] c = "2" -> 2 [] c = "3" -> 3 [] c = "4" -> 4
      [] c = "5" -> 5 [] c = "6" -> 6 [] c = "7" -> 7 [] c = "8" -> 8 [] c = "9" -> 9

RECURSIVE ParseInt(_)
ParseInt(s) ==
    IF Len(s) = 0 THEN 0
    ELSE 10 * ParseInt(SubSeq(s, 1, Len(s) - 1)) + DigitValue(s[Len(s)])

\* Lines 77-78: the destructuring defaults.
PageOf(query) == IF query.page = <<>> THEN DefaultPage ELSE ParseInt(query.page)
LimitOf(query) == IF query.limit = <<>> THEN DefaultLimit ELSE ParseInt(query.limit)
\* Lines 84-85.
SortByOf(query) == IF query.sortBy = "undefined" THEN "createdAt" ELSE query.sortBy
SortOrderOf(query) == IF query.sortOrder = "undefined" THEN "desc" ELSE query.sortOrder

\* $regex with $options 'i', for patterns of literal characters and ".":
\* an unanchored match, "." matching any character.
Lower(c) == CASE c = "A" -> "a" [] c = "B" -> "b" [] c = "X" -> "x" [] OTHER -> c

RegexMatch(pattern, text) ==
    \E i \in 0..(Len(text) - Len(pattern)) :
        \A j \in 1..Len(pattern) :
            pattern[j] = "." \/ Lower(pattern[j]) = Lower(text[i + j])

\* Lines 88-109: the filter built from the query, as a predicate on a document.
\* A filter that reads the role of the record's user from the User
\* collection instead of the record.
FilterMatchesLiveRole(query, doc) ==
    /\ (query.role # "" /\ query.role # "all") => users[doc.userId].role = query.role
    /\ (query.action # "" /\ query.action # "all") => doc.action = query.action
    /\ query.search # <<>> =>
          (RegexMatch(query.search, doc.username) \/ RegexMatch(query.search, doc.ipAddress))
    /\ query.startDate # Null => doc.createdAt >= Val(query.startDate)
    /\ query.endDate # Null => doc.createdAt <= Val(query.endDate)

FilterMatches(query, doc) ==
    /\ (query.role # "" /\ query.role # "all") => doc.role = query.role
    /\ (query.action # "" /\ query.action # "all") => doc.action = query.action
    /\ query.search # <<>> =>
          (RegexMatch(query.search, doc.username) \/ RegexMatch(query.search, doc.ipAddress))
    /\ query.startDate # Null => doc.createdAt >= Val(query.startDate)
    /\ query.endDate # Null => doc.createdAt <= Val(query.endDate)

\* The value a document is sorted on; null sorts below every date.
SortValue(doc, sortBy) ==
    CASE sortBy = "createdAt" -> doc.createdAt
      [] sortBy = "logoutTime" -> IF doc.logoutTime = Null THEN -1 ELSE Val(doc.logoutTime)

\* Lines 111-112: sort[sortBy] = sortOrder === 'desc' ? -1 : 1.
InSortOrder(a, b, sortBy, sortOrder) ==
    IF sortOrder = "desc" THEN SortValue(a, sortBy) >= SortValue(b, sortBy)
                          ELSE SortValue(a, sortBy) <= SortValue(b, sortBy)

\* Every sequence the store may return for find(filter).sort(sort): the
\* matching documents in sort order, documents with equal keys in any order.
Sorted(docs, sortBy, sortOrder) ==
    {s \in [1..Cardinality(docs) -> docs] :
        /\ \A i, j \in 1..Cardinality(docs) : i # j => s[i] # s[j]
        /\ \A i, j \in 1..Cardinality(docs) :
              i < j => InSortOrder(s[i], s[j], sortBy, sortOrder)}

\* An offset that is one page too far.
SkipOfNextPage(query) == PageOf(query) * LimitOf(query)

\* Line 114.
SkipOf(query) == (PageOf(query) - 1) * LimitOf(query)

\* .skip(skip).limit(parseInt(limit))
SkipLimit(s, skip, limit) ==
    SubSeq(s, skip + 1, IF skip + limit < Len(s) THEN skip + limit ELSE Len(s))

\* Line 120: populate replaces userId by the user's document, or by null
\* when the user no longer exists.
Populate(doc) ==
    [doc EXCEPT !.userId =
        IF doc.userId \in DOMAIN users
           THEN Some([id |-> doc.userId, email |-> users[doc.userId].email])
           ELSE Null]

\* Math.ceil(total / limit)
Ceil(total, limit) ==
    IF total % limit = 0 THEN total \div limit ELSE (total \div limit) + 1

\* Lines 76-114: the query is read, the filter and the sort are built.
GetUserLogsStart(p, query) ==
    /\ pc[p] = "idle"
    /\ req' = [req EXCEPT ![p] = [op |-> "getUserLogs"] @@ query]
    /\ pc' = [pc EXCEPT ![p] = "find"]
    /\ loc' = [loc EXCEPT ![p] = [at |-> "find"]]
    /\ UNCHANGED <<clock, users, logs, nextId, resp>>

\* Lines 116-120: find(filter).sort(sort).skip(skip).limit(limit).populate().
GetUserLogsFind(p) ==
    /\ pc[p] = "find"
    /\ \E fault \in BOOLEAN :
          IF fault
             THEN /\ Respond(p, StoreError)
                  /\ UNCHANGED loc
             ELSE \E s \in Sorted({d \in logs : FilterMatches(req[p], d)},
                                  SortByOf(req[p]), SortOrderOf(req[p])) :
                     LET page == SkipLimit(s, SkipOf(req[p]), LimitOf(req[p]))
                     IN  /\ pc' = [pc EXCEPT ![p] = "count"]
                         /\ loc' = [loc EXCEPT ![p] =
                               [at |-> "count", sorted |-> s,
                                logs |-> [i \in 1..Len(page) |-> Populate(page[i])]]]
                         /\ UNCHANGED resp
    /\ UNCHANGED <<clock, users, logs, nextId, req>>

\* Lines 122-133: countDocuments(filter), then the response.
GetUserLogsCount(p) ==
    /\ pc[p] = "count"
    /\ \E fault \in BOOLEAN :
          IF fault
             THEN Respond(p, StoreError)
             ELSE LET total == Cardinality({d \in logs : FilterMatches(req[p], d)})
                  IN  Respond(p, [status |-> 200,
                                  data |-> loc[p].logs,
                                  pagination |->
                                     [currentPage |-> PageOf(req[p]),
                                      totalPages |-> Ceil(total, LimitOf(req[p])),
                                      totalItems |-> total,
                                      itemsPerPage |-> LimitOf(req[p])]])
    /\ UNCHANGED <<clock, users, logs, nextId, req, loc>>

(***************************************************************************)
(* deleteUserLog                                                           *)
(***************************************************************************)
\* Lines 150-152.
DeleteUserLogStart(p, logId) ==
    /\ pc[p] = "idle"
    /\ req' = [req EXCEPT ![p] = [op |-> "deleteUserLog", logId |-> logId]]
    /\ pc' = [pc EXCEPT ![p] = "findById"]
    /\ loc' = [loc EXCEPT ![p] = [at |-> "findById"]]
    /\ UNCHANGED <<clock, users, logs, nextId, resp>>

\* A lookup that goes on to the deletion without testing what it found.
DeleteUserLogFindByIdUnchecked(p) ==
    /\ pc[p] = "findById"
    /\ \E fault \in BOOLEAN :
          IF fault
             THEN /\ Respond(p, StoreError)
                  /\ UNCHANGED loc
             ELSE /\ pc' = [pc EXCEPT ![p] = "findByIdAndDelete"]
                  /\ loc' = [loc EXCEPT ![p] = [at |-> "findByIdAndDelete"]]
                  /\ UNCHANGED resp
    /\ UNCHANGED <<clock, users, logs, nextId, req>>

\* Lines 152-160: findById resolves; 404 when there is no such document.
DeleteUserLogFindById(p) ==
    /\ pc[p] = "findById"
    /\ \E fault \in BOOLEAN :
          IF fault
             THEN /\ Respond(p, StoreError)
                  /\ UNCHANGED loc
          ELSE IF \A d \in logs : d.id # req[p].logId
             THEN /\ Respond(p, [status |-> 404])
                  /\ UNCHANGED loc
          ELSE /\ pc' = [pc EXCEPT ![p] = "findByIdAndDelete"]
               /\ loc' = [loc EXCEPT ![p] = [at |-> "findByIdAndDelete"]]
               /\ UNCHANGED resp
    /\ UNCHANGED <<clock, users, logs, nextId, req>>

\* Lines 160-165: findByIdAndDelete resolves (removing the document if it is
\* still there), then 200.
DeleteUserLogFindByIdAndDelete(p) ==
    /\ pc[p] = "findByIdAndDelete"
    /\ \E fault \in BOOLEAN :
          IF fault
             THEN /\ Respond(p, StoreError)
                  /\ UNCHANGED logs
             ELSE /\ logs' = {d \in logs : d.id # req[p].logId}
                  /\ Respond(p, [status |-> 200])
    /\ UNCHANGED <<clock, users, nextId, req, loc>>

(***************************************************************************)
(* deleteMultipleLogs                                                      *)
(***************************************************************************)
\* Line 184: !logIds || !Array.isArray(logIds) || logIds.length === 0
BulkInvalid(body) == body.kind # "array" \/ body.logIds = {}

\* Lines 182-191.
DeleteMultipleLogsStart(p, body) ==
    /\ pc[p] = "idle"
    /\ req' = [req EXCEPT ![p] = [op |-> "deleteMultipleLogs"] @@ body]
    /\ loc' = [loc EXCEPT ![p] = [at |-> "deleteMany"]]
    /\ IF BulkInvalid(body)
          THEN Respond(p, [status |-> 400])
          ELSE /\ pc' = [pc EXCEPT ![p] = "deleteMany"]
               /\ UNCHANGED resp
    /\ UNCHANGED <<clock, users, logs, nextId>>

\* A bulk deletion that reports the number of ids it was asked to delete.
DeleteMultipleLogsDeleteManyRequested(p) ==
    /\ pc[p] = "deleteMany"
    /\ \E fault \in BOOLEAN :
          IF fault
             THEN /\ Respond(p, StoreError)
                  /\ UNCHANGED logs
             ELSE /\ logs' = {d \in logs : d.id \notin req[p].logIds}
                  /\ Respond(p, [status |-> 200,
                                 deletedCount |-> Cardinality(req[p].logIds)])
    /\ UNCHANGED <<clock, users, nextId, req, loc>>

\* Lines 191-196: deleteMany({_id: {$in: logIds}}) resolves.
DeleteMultipleLogsDeleteMany(p) ==
    /\ pc[p] = "deleteMany"
    /\ \E fault \in BOOLEAN :
          IF fault
             THEN /\ Respond(p, StoreError)
                  /\ UNCHANGED logs
             ELSE /\ logs' = {d \in logs : d.id \notin req[p].logIds}
                  /\ Respond(p, [status |-> 200,
                                 deletedCount |->
                                    Cardinality({d \in logs : d.id \in req[p].logIds})])
    /\ UNCHANGED <<clock, users, nextId, req, loc>>

(***************************************************************************)
(* getUserLogStats                                                         *)
(***************************************************************************)
\* The periods, in days (the unit of the clock): lines 220, 223, 226, 229.
Hours24 == 1
Days7 == 7
Days30 == 30

PeriodOf(query) == IF query.period = "undefined" THEN "7d" ELSE query.period

\* A window whose default is the longest period.
WindowStartDefault30(period, now) ==
    CASE period = "24h" -> now - Hours24
      [] period = "7d" -> now - Days7
      [] OTHER -> now - Days30

\* Lines 218-230: the lower bound of the window.
WindowStart(period, now) ==
    CASE period = "24h" -> now - Hours24
      [] period = "7d" -> now - Days7
      [] period = "30d" -> now - Days30
      [] OTHER -> now - Days7

\* Lines 213-232.
GetUserLogStatsStart(p, query) ==
    /\ pc[p] = "idle"
    /\ req' = [req EXCEPT ![p] = [op |-> "getUserLogStats"] @@ query]
    /\ pc' = [pc EXCEPT ![p] = "aggregate"]
    /\ loc' = [loc EXCEPT ![p] =
          [at |-> "aggregate", now |-> clock,
           since |-> WindowStart(PeriodOf(query), clock)]]
    /\ UNCHANGED <<clock, users, logs, nextId, resp>>

\* An aggregation that counts the events of the window as its users.
AggregateCountingEvents(since) ==
    LET matched == {d \in logs : d.createdAt >= since}
    IN  IF matched = {} THEN <<>>
        ELSE <<[totalLogs |-> Cardinality(matched),
                loginCount |-> Cardinality({d \in matched : d.action = "login"}),
                logoutCount |-> Cardinality({d \in matched : d.action = "logout"}),
                uniqueUsers |-> Cardinality(matched)]>>

\* Lines 232-252: $match, $group, $project; no group when nothing matches.
Aggregate(since) ==
    LET matched == {d \in logs : d.createdAt >= since}
    IN  IF matched = {} THEN <<>>
        ELSE <<[totalLogs |-> Cardinality(matched),
                loginCount |-> Cardinality({d \in matched : d.action = "login"}),
                logoutCount |-> Cardinality({d \in matched : d.action = "logout"}),
                uniqueUsers |-> Cardinality({d.userId : d \in matched})]>>

\* Lines 232-262.
GetUserLogStatsAggregate(p) ==
    /\ pc[p] = "aggregate"
    /\ \E fault \in BOOLEAN :
          IF fault
             THEN Respond(p, StoreError)
             ELSE LET stats == Aggregate(loc[p].since)
                  IN  Respond(p, [status |-> 200,
                                  data |-> IF Len(stats) > 0 THEN stats[1]
                                           ELSE [totalLogs |-> 0, loginCount |-> 0,
                                                 logoutCount |-> 0, uniqueUsers |-> 0]])
    /\ UNCHANGED <<clock, users, logs, nextId, req, loc>>

(***************************************************************************)
(* The environment: the clock, and a handler returning.                    *)
(***************************************************************************)
Tick ==
    /\ clock < MaxClock
    /\ clock' = clock + 1
    /\ UNCHANGED <<users, logs, nextId, pc, req, loc, resp>>

\* The wall clock is set back (Date.now() is not monotonic).
ClockSetBack ==
    /\ clock > 0
    /\ clock' = clock - 1
    /\ UNCHANGED <<users, logs, nextId, pc, req, loc, resp>>

\* The instants at which the ages of the records meet the ends of the
\* windows of lines 220, 223 and 226: on them and one day past them.
Instants ==
    {0, Hours24, Hours24 + Hours24, Days7, Days7 + Hours24, Days30, Days30 + Hours24}

\* Time passes to a later instant.
TickTo ==
    /\ \E t \in Instants : t > clock /\ clock' = t
    /\ UNCHANGED <<users, logs, nextId, pc, req, loc, resp>>

\* The email or the role of a user is changed in the User collection.
UserChange(u) ==
    /\ u \in DOMAIN users
    /\ \E email \in {EmailU1, EmailU2}, role \in RoleEnum :
          /\ users[u] # [email |-> email, role |-> role]
          /\ users' = [users EXCEPT ![u] = [email |-> email, role |-> role]]
    /\ UNCHANGED <<clock, logs, nextId, pc, req, loc, resp>>

\* A user is removed from the User collection.
UserRemove(u) ==
    /\ u \in DOMAIN users
    /\ users' = [v \in DOMAIN users \ {u} |-> users[v]]
    /\ UNCHANGED <<clock, logs, nextId, pc, req, loc, resp>>

Return(p) ==
    /\ pc[p] = "done"
    /\ pc' = [pc EXCEPT ![p] = "idle"]
    /\ req' = [req EXCEPT ![p] = NoReq]
    /\ loc' = [loc EXCEPT ![p] = NoLoc]
    /\ resp' = [resp EXCEPT ![p] = NoResp]
    /\ UNCHANGED <<clock, users, logs, nextId>>

Init ==
    /\ clock = 0
    /\ users = InitUsers
    /\ logs = {}
    /\ nextId = 1
    /\ pc = [p \in Procs |-> "idle"]
    /\ req = [p \in Procs |-> NoReq]
    /\ loc = [p \in Procs |-> NoLoc]
    /\ resp = [p \in Procs |-> NoResp]

\* The requests the handlers are started with.
LogIds == 1..MaxLogs
BulkBodies ==
    [kind : {"array"}, logIds : SUBSET LogIds]
        \cup [kind : {"undefined", "string"}, logIds : {{}}]
StatsQueries == [period : {"undefined", "24h"}]
PeriodQueries == [period : {"undefined", "24h", "7d", "30d", "1y"}]
Join(A, B) == {a @@ b : a \in A, b \in B}
NoFilter ==
    [role : {"all"}, action : {"all"}, search : {<<>>}, startDate : {Null}, endDate : {Null}]
FirstPage ==
    [page : {<<>>}, limit : {<<>>}, sortBy : {"undefined"}, sortOrder : {"undefined"}]
DefaultQueries == Join(NoFilter, FirstPage)
RoleQueries ==
    Join([role : {"all", "admin", "user"}, action : {"all"}, search : {<<>>},
          startDate : {Null}, endDate : {Null}],
         FirstPage)
\* role, action and search in every combination; the date bounds alone, and
\* together with the other clauses.
FilterQueries ==
    Join([role : {"", "all", "admin"}, action : {"", "all", "login"},
          search : {<<>>, <<"a", ".", "B">>, <<"X">>, <<"1">>},
          startDate : {Null}, endDate : {Null}]
         \cup [role : {"all", "admin"}, action : {"all", "login"},
               search : {<<>>, <<"a", ".", "B">>},
               startDate : {Null, Some(1)}, endDate : {Null, Some(1)}],
         FirstPage)
PageQueries ==
    Join(NoFilter,
         [page : {<<>>, <<"1">>, <<"2">>, <<"3">>}, limit : {<<>>, <<"1">>, <<"2">>},
          sortBy : {"undefined", "logoutTime"}, sortOrder : {"undefined", "asc"}])
\* The events of the runs that exercise the other operations.
EventBodies ==
    {b \in Bodies : b.userId # "" /\ b.action \in {"login", "logout", "delete"}}
FilterEventBodies ==
    {b \in Bodies : b.userId \in {"u1", "u2"} /\ b.action \in {"login", "register"}
                    /\ b.ipAddress = Ip1}
PageEventBodies ==
    {b \in Bodies : b.userId = "u1" /\ b.action \in {"login", "logout"}
                    /\ b.ipAddress = Ip1}

StatsEventBodies ==
    {b \in Bodies : b.userId \in {"u1", "u2"} /\ b.action \in {"login", "logout", "register"}
                    /\ b.ipAddress = Ip1}

DirectoryEventBodies ==
    {b \in Bodies : b.userId = "u1" /\ b.action = "login" /\ b.ipAddress = Ip1}

RaceEventBodies ==
    {b \in Bodies : b.userId = "u1" /\ b.action \in {"login", "logout"}
                    /\ b.ipAddress = Ip1}

StoreRaceEventBodies ==
    {b \in Bodies : b.userId = "u1" /\ b.action = "login" /\ b.ipAddress = Ip1}
StoreRaceLogIds == 1..MaxFilterLogs
StoreRaceBulkBodies == [kind : {"array"}, logIds : {StoreRaceLogIds}]
StoreRaceQueries ==
    Join(NoFilter,
         [page : {<<>>, <<"2">>}, limit : {<<"1">>, <<"2">>},
          sortBy : {"undefined"}, sortOrder : {"undefined"}])

\* createUserLog, started while fewer than max events have been recorded.
Create(p, B, max) ==
    \/ nextId <= max /\ \E body \in B : CreateUserLogStart(p, body)
    \/ CreateUserLogFindUser(p)
    \/ CreateUserLogFindLogin(p)
    \/ CreateUserLogSave(p)

CreateNoLogout(p, B, max) ==
    \/ nextId <= max /\ \E body \in B : CreateUserLogStart(p, body)
    \/ CreateUserLogFindUser(p)
    \/ CreateUserLogSave(p)

List(p, Q) ==
    \/ \E query \in Q : GetUserLogsStart(p, query)
    \/ GetUserLogsFind(p)
    \/ GetUserLogsCount(p)

Delete(p) ==
    \/ \E logId \in LogIds : DeleteUserLogStart(p, logId)
    \/ DeleteUserLogFindById(p)
    \/ DeleteUserLogFindByIdAndDelete(p)
    \/ \E body \in BulkBodies : DeleteMultipleLogsStart(p, body)
    \/ DeleteMultipleLogsDeleteMany(p)

DeleteOne(p, I) ==
    \/ \E logId \in I : DeleteUserLogStart(p, logId)
    \/ DeleteUserLogFindById(p)
    \/ DeleteUserLogFindByIdAndDelete(p)

DeleteMany(p, B) ==
    \/ \E body \in B : DeleteMultipleLogsStart(p, body)
    \/ DeleteMultipleLogsDeleteMany(p)

Stats(p) ==
    \/ \E query \in StatsQueries : GetUserLogStatsStart(p, query)
    \/ GetUserLogStatsAggregate(p)

StatsOf(p, Q) ==
    \/ \E query \in Q : GetUserLogStatsStart(p, query)
    \/ GetUserLogStatsAggregate(p)

\* The Log Writer: one createUserLog at a time, each run to its response
\* before the next starts, while the clock advances.
Next ==
    \/ \E p \in SeqProcs : Create(p, Bodies, MaxLogs) \/ Return(p)
    \/ Tick

Spec == Init /\ [][Next]_vars

\* The Log Writer under a wall clock that may be set back.
NextSkew == Next \/ ClockSetBack

SpecSkew == Init /\ [][NextSkew]_vars

\* Every operation of the controller, one handler at a time.
NextAll ==
    \/ \E p \in SeqProcs :
          \/ Create(p, EventBodies, MaxLogs)
          \/ List(p, DefaultQueries)
          \/ Delete(p)
          \/ Stats(p)
          \/ Return(p)
    \/ Tick

SpecAll == Init /\ [][NextAll]_vars

\* The filter of getUserLogs over the stores the Log Writer fills.
NextFilter ==
    \/ \E p \in SeqProcs :
          \/ CreateNoLogout(p, FilterEventBodies, MaxFilterLogs)
          \/ List(p, FilterQueries)
          \/ Return(p)
    \/ Tick

SpecFilter == Init /\ [][NextFilter]_vars

\* The sort and the pagination of getUserLogs.
NextPage ==
    \/ \E p \in SeqProcs :
          \/ Create(p, PageEventBodies, MaxLogs)
          \/ List(p, PageQueries)
          \/ Return(p)
    \/ Tick

SpecPage == Init /\ [][NextPage]_vars

\* The statistics of every period over stores whose records are of every
\* age the windows tell apart.
NextStats ==
    \/ \E p \in SeqProcs :
          \/ Create(p, StatsEventBodies, MaxStatsLogs)
          \/ StatsOf(p, PeriodQueries)
          \/ Return(p)
    \/ TickTo

SpecStats == Init /\ [][NextStats]_vars

\* The Log Writer and the role filter while the user of the events is changed
\* in the User collection.
NextDirectory ==
    \/ \E p \in SeqProcs :
          \/ CreateNoLogout(p, DirectoryEventBodies, MaxFilterLogs)
          \/ List(p, RoleQueries)
          \/ Return(p)
    \/ UserChange("u1")
    \/ Tick

SpecDirectory == Init /\ [][NextDirectory]_vars

\* Two createUserLog handlers of one user, their awaits interleaved.
NextRace ==
    \/ \E p \in Procs : Create(p, RaceEventBodies, MaxLogs) \/ Return(p)
    \/ Tick

SpecRace == Init /\ [][NextRace]_vars

\* Two handlers that write, delete and list, their awaits interleaved.
NextStoreRace ==
    \/ \E p \in Procs :
          \/ CreateNoLogout(p, StoreRaceEventBodies, MaxFilterLogs)
          \/ DeleteOne(p, StoreRaceLogIds)
          \/ DeleteMany(p, StoreRaceBulkBodies)
          \/ List(p, StoreRaceQueries)
          \/ Return(p)
    \/ Tick

SpecStoreRace == Init /\ [][NextStoreRace]_vars

\* The Log Writer and getUserLogs while the user of the events is changed in
\* and removed from the User collection.
NextRemoval ==
    \/ \E p \in SeqProcs :
          \/ CreateNoLogout(p, DirectoryEventBodies, MaxFilterLogs)
          \/ List(p, RoleQueries)
          \/ Return(p)
    \/ UserChange("u1")
    \/ UserRemove("u1")
    \/ Tick

SpecRemoval == Init /\ [][NextRemoval]_vars

(***************************************************************************)
(* The properties of the Log Writer.                                       *)
(***************************************************************************)
IsCreate(p) == req[p].op = "createUserLog"
Created(p) == IsCreate(p) /\ pc[p] = "done" /\ resp[p].status = 201
LoginsOf(userId) == {l \in logs : l.action = "login" /\ l.userId = userId}
\* The handler has looked up the latest login of a logout.
LookedUp(p) == IsCreate(p) /\ req[p].action = "logout" /\ loc[p].at = "save"

\* C1: a logout that runs alone is linked to the login of the same user with
\* the greatest loginTime in the store, and its sessionDuration is measured
\* from that login.
C1_LinksLatestLogin ==
    \A p \in Procs :
        (LookedUp(p) /\ LoginsOf(req[p].userId) # {}) =>
            /\ loc[p].lastLoginLog # Null
            /\ Val(loc[p].lastLoginLog) \in LoginsOf(req[p].userId)
            /\ \A l \in LoginsOf(req[p].userId) :
                  Val(l.loginTime) <= Val(Val(loc[p].lastLoginLog).loginTime)
            /\ loc[p].userLog.sessionDuration =
                  Some(loc[p].userLog.createdAt - Val(Val(loc[p].lastLoginLog).loginTime))

\* A logout recorded after two logins of its user at different times.
C1_Witness ==
    \E p \in Procs :
        /\ Created(p) /\ req[p].action = "logout"
        /\ \E a, b \in LoginsOf(req[p].userId) : Val(a.loginTime) < Val(b.loginTime)
        /\ resp[p].data.sessionDuration # Null

\* C2: the sessionDuration of a linked logout is its own logoutTime minus the
\* loginTime of the login it was linked to, whatever time passes during the
\* lookup.
C2_DurationFromLogoutTime ==
    \A p \in Procs :
        (Created(p) /\ req[p].action = "logout" /\ loc[p].lastLoginLog # Null) =>
            resp[p].data.sessionDuration =
                Some(Val(resp[p].data.logoutTime) - Val(Val(loc[p].lastLoginLog).loginTime))

\* C3: a stored record has loginTime exactly when it is a login and logoutTime
\* exactly when it is a logout; a login has no sessionDuration, and a register
\* or password_reset has neither time nor a sessionDuration.
C3_TimesFollowAction ==
    \A d \in logs :
        /\ d.loginTime # Null <=> d.action = "login"
        /\ d.logoutTime # Null <=> d.action = "logout"
        /\ d.action = "login" => d.sessionDuration = Null
        /\ d.action \in {"register", "password_reset"} =>
              d.loginTime = Null /\ d.logoutTime = Null /\ d.sessionDuration = Null

C3_Witness ==
    /\ \E d \in logs : d.action = "login"
    /\ \E d \in logs : d.action = "logout"
    /\ \E d \in logs : d.action \in {"register", "password_reset"}

\* C4: a record that carries a sessionDuration is a logout and the duration is
\* not negative, also when the clock was set back before the logout.
C4_DurationNonNegative ==
    \A d \in logs :
        d.sessionDuration # Null =>
            d.action = "logout" /\ Val(d.sessionDuration) >= 0

\* C5: a logout of an existing user with no login in the store is recorded:
\* unless a store call fails, the handler answers 201 and adds exactly one
\* logout record, with logoutTime set and no sessionDuration.
C5_LogoutWithoutLogin ==
    [][\A p \in Procs :
          (/\ IsCreate(p) /\ req[p].action = "logout" /\ req[p].ipAddress # <<>>
           /\ req[p].userId \in DOMAIN users
           /\ LoginsOf(req[p].userId) = {}
           /\ pc[p] # "done" /\ pc'[p] = "done"
           /\ resp'[p] # StoreError) =>
              /\ resp'[p].status = 201
              /\ resp'[p].data \notin logs
              /\ logs' = logs \cup {resp'[p].data}
              /\ resp'[p].data.action = "logout"
              /\ resp'[p].data.userId = req[p].userId
              /\ resp'[p].data.logoutTime # Null
              /\ resp'[p].data.sessionDuration = Null]_vars

C5_Witness ==
    \E p \in Procs :
        /\ Created(p) /\ req[p].action = "logout"
        /\ LoginsOf(req[p].userId) = {}
        /\ \E o \in logs : o.action = "login"
        /\ resp[p].data.sessionDuration = Null

\* C6: with a required field missing the handler answers 400 and has not
\* consulted the user directory; with all three present and a user the
\* directory does not know, it answers 404 (unless the lookup itself fails).
C6_Validation ==
    \A p \in Procs :
        (IsCreate(p) /\ pc[p] = "done") =>
            /\ (req[p].userId = "" \/ req[p].action = "" \/ req[p].ipAddress = <<>>) =>
                  resp[p].status = 400 /\ loc[p].userLookups = 0
            /\ (/\ req[p].userId # "" /\ req[p].action # "" /\ req[p].ipAddress # <<>>
                /\ req[p].userId \notin DOMAIN users
                /\ resp[p] # StoreError) =>
                  resp[p].status = 404

\* A request of an existing user that lacks only its ipAddress.
C6_Witness ==
    \E p \in Procs :
        /\ IsCreate(p) /\ pc[p] = "done"
        /\ req[p].userId \in DOMAIN users /\ req[p].action = "login"
        /\ req[p].ipAddress = <<>>
        /\ resp[p].status = 400

\* C7: an action outside the closed set is answered 400 and nothing is
\* recorded, so that every stored action is in the closed set.
C7_UnknownActionIsInvalidInput ==
    /\ \A d \in logs : d.action \in ActionEnum
    /\ \A p \in Procs :
          (/\ IsCreate(p) /\ pc[p] = "done"
           /\ req[p].action \notin ActionEnum
           /\ req[p].userId \in DOMAIN users /\ req[p].ipAddress # <<>>
           /\ resp[p] # StoreError) =>
              resp[p].status = 400

(***************************************************************************)
(* The properties of the record collection.                                *)
(***************************************************************************)
Ids(docs) == {d.id : d \in docs}
Stepping(p) == pc'[p] # pc[p]

\* C8: no step changes a field of a record that stays; the collection changes
\* only by a createUserLog adding one new record or by a delete removing
\* records; getUserLogs and getUserLogStats leave it as it is.
C8_RecordsImmutable ==
    [][/\ \A d \in logs : \A e \in logs' : e.id = d.id => e = d
       /\ logs' # logs =>
             \E p \in Procs :
                /\ Stepping(p)
                /\ \/ /\ IsCreate(p) /\ resp'[p].status = 201
                      /\ resp'[p].data.id \notin Ids(logs)
                      /\ logs' = logs \cup {resp'[p].data}
                   \/ /\ req[p].op \in {"deleteUserLog", "deleteMultipleLogs"}
                      /\ logs' \subseteq logs
       /\ \A p \in Procs :
             (Stepping(p) /\ pc[p] # "idle"
              /\ req[p].op \in {"getUserLogs", "getUserLogStats"}) =>
                logs' = logs]_vars

\* A page of records read after a record was deleted.
C8_Witness ==
    \E p \in Procs :
        /\ req[p].op = "getUserLogs" /\ pc[p] = "done" /\ resp[p].status = 200
        /\ Len(resp[p].data) = 2
        /\ nextId = 4

(***************************************************************************)
(* The properties of the Log Query Engine.                                 *)
(***************************************************************************)
Listed(p) == req[p].op = "getUserLogs" /\ pc[p] = "done" /\ resp[p].status = 200
DataIds(p) == {resp[p].data[i].id : i \in 1..Len(resp[p].data)}

\* text contains s, letter case ignored.
Contains(text, s) ==
    \E i \in 0..(Len(text) - Len(s)) :
        \A j \in 1..Len(s) : Lower(s[j]) = Lower(text[i + j])

\* The clauses of a query, as the specification states them.
SatisfiesClauses(query, d) ==
    /\ query.role \notin {"", "all"} => d.role = query.role
    /\ query.action \notin {"", "all"} => d.action = query.action
    /\ query.search # <<>> =>
          Contains(d.username, query.search) \/ Contains(d.ipAddress, query.search)
    /\ query.startDate # Null => d.createdAt >= Val(query.startDate)
    /\ query.endDate # Null => d.createdAt <= Val(query.endDate)

\* C9: getUserLogs returns exactly the records that satisfy every clause
\* supplied: role, action, the search text contained in username or ipAddress
\* whatever the letter case, and the inclusive bounds on createdAt.
C9_ReturnsExactlyMatching ==
    \A p \in Procs :
        (Listed(p) /\ req[p].page = <<>> /\ req[p].limit = <<>>) =>
            DataIds(p) = Ids({d \in logs : SatisfiesClauses(req[p], d)})

\* The number a query parameter denotes.
NumberOf(s, default) ==
    CASE s = <<>> -> default [] s = <<"1">> -> 1 [] s = <<"2">> -> 2 [] s = <<"3">> -> 3

\* s lists docs in the order of the query: by createdAt, newest first, when
\* the query names no key and no direction.
InQueryOrder(s, query) ==
    \A i, j \in DOMAIN s :
        i < j =>
            LET a == IF query.sortBy = "logoutTime"
                        THEN (IF s[i].logoutTime = Null THEN -1 ELSE Val(s[i].logoutTime))
                        ELSE s[i].createdAt
                b == IF query.sortBy = "logoutTime"
                        THEN (IF s[j].logoutTime = Null THEN -1 ELSE Val(s[j].logoutTime))
                        ELSE s[j].createdAt
            IN  IF query.sortOrder = "asc" THEN a <= b ELSE a >= b

\* C10: on an unchanged store getUserLogs returns positions (page-1)*limit+1
\* to min(page*limit, total) of the matching records in the order asked for
\* (createdAt descending by default), with totalItems = total, totalPages =
\* ceil(total/limit), currentPage = page and itemsPerPage = limit; a page past
\* the last one is empty and is answered 200.
C10_Pagination ==
    \A p \in Procs :
        Listed(p) =>
            LET query == req[p]
                page == NumberOf(query.page, 1)
                limit == NumberOf(query.limit, 50)
                matching == {d \in logs : SatisfiesClauses(query, d)}
                total == Cardinality(matching)
                first == (page - 1) * limit + 1
                last == IF page * limit < total THEN page * limit ELSE total
                data == resp[p].data
                meta == resp[p].pagination
            IN  /\ Len(data) = (IF last >= first THEN last - first + 1 ELSE 0)
                /\ \E s \in [1..total -> matching] :
                      /\ \A i, j \in 1..total : i # j => s[i] # s[j]
                      /\ InQueryOrder(s, query)
                      /\ \A i \in 1..Len(data) :
                            [data[i] EXCEPT !.userId = s[first + i - 1].userId]
                                = s[first + i - 1]
                /\ meta.totalItems = total
                /\ meta.totalPages * limit >= total
                /\ (meta.totalPages - 1) * limit < total
                /\ meta.currentPage = page
                /\ meta.itemsPerPage = limit
                /\ page > meta.totalPages => data = <<>>

\* The second page of three records read two at a time: the last record.
C10_Witness ==
    \E p \in Procs :
        /\ Listed(p)
        /\ req[p].page = <<"2">> /\ req[p].limit = <<"2">>
        /\ resp[p].pagination.totalItems = 3
        /\ resp[p].pagination.totalPages = 2
        /\ Len(resp[p].data) = 1

(***************************************************************************)
(* The properties of the statistics.                                       *)
(***************************************************************************)
IsStats(p) == req[p].op = "getUserLogStats"
StatsDone(p) == IsStats(p) /\ pc[p] = "done" /\ resp[p].status = 200
Windowed(since) == {d \in logs : d.createdAt >= since}
ZeroStats == [totalLogs |-> 0, loginCount |-> 0, logoutCount |-> 0, uniqueUsers |-> 0]

\* C11: the statistics count the records of the window: totalLogs is their
\* number, loginCount and logoutCount the numbers of those whose action is
\* login and logout, uniqueUsers the number of distinct userId values among
\* them; loginCount + logoutCount and uniqueUsers are at most totalLogs; over
\* an empty window the four are zero and the call does not fail (a fault of
\* the store set aside).
C11_Statistics ==
    \A p \in SeqProcs :
       (IsStats(p) /\ pc[p] = "done") =>
          \/ resp[p] = StoreError
          \/ /\ resp[p].status = 200
             /\ LET w == Windowed(loc[p].since)
                    data == resp[p].data
                IN  /\ data.totalLogs = Cardinality(w)
                    /\ data.loginCount = Cardinality({d \in w : d.action = "login"})
                    /\ data.logoutCount = Cardinality({d \in w : d.action = "logout"})
                    /\ data.uniqueUsers = Cardinality({d.userId : d \in w})
                    /\ data.loginCount + data.logoutCount <= data.totalLogs
                    /\ data.uniqueUsers <= data.totalLogs
                    /\ w = {} => data = ZeroStats

\* Two events of one user in the window: one unique user.
C11_Witness ==
    \E p \in SeqProcs :
       /\ StatsDone(p)
       /\ resp[p].data.totalLogs = 2
       /\ resp[p].data.uniqueUsers = 1

PeriodLength(period) ==
    CASE period = "24h" -> Hours24
      [] period = "30d" -> Days30
      [] OTHER -> Days7

\* C12: the window holds the records with createdAt at or after now minus
\* the length of the period, with no upper bound: 24 hours for "24h", 30
\* days for "30d", and 7 days for "7d", for an absent period and for any
\* other value, which is answered as "7d" is and never as an error.
C12_Window ==
    \A p \in SeqProcs :
       (IsStats(p) /\ pc[p] = "done" /\ resp[p] # StoreError) =>
          /\ resp[p].status = 200
          /\ loc[p].since = loc[p].now - PeriodLength(req[p].period)
          /\ resp[p].data.totalLogs =
                Cardinality({d \in logs :
                    d.createdAt >= loc[p].now - PeriodLength(req[p].period)})
          /\ req[p].period \notin {"24h", "7d", "30d"} =>
                resp[p].data.totalLogs =
                   Cardinality({d \in logs : d.createdAt >= loc[p].now - Days7})

\* An unrecognized period over a store with a record older than 7 days and
\* one younger.
C12_Witness ==
    \E p \in SeqProcs :
       /\ StatsDone(p)
       /\ req[p].period = "1y"
       /\ Cardinality(logs) = 2
       /\ resp[p].data.totalLogs = 1

(***************************************************************************)
(* The properties of the deletions.                                        *)
(***************************************************************************)
IsDelete(p) == req[p].op = "deleteUserLog"

\* C13: deleteUserLog of an id that is not in the store answers 404 and
\* never 200, and removes nothing; of an id that is in the store, with no
\* other handler in between, it answers 200 and removes the record with
\* that id and no other (a fault of the store set aside).
C13_DeleteEvent ==
    [][\A p \in SeqProcs :
          /\ (IsDelete(p) /\ pc[p] = "findById" /\ Stepping(p)) =>
                /\ logs' = logs
                /\ IF req[p].logId \in Ids(logs)
                      THEN pc'[p] = "findByIdAndDelete" \/ resp'[p] = StoreError
                      ELSE pc'[p] = "done" /\ resp'[p].status \in {404, 500}
          /\ (IsDelete(p) /\ pc[p] = "findByIdAndDelete" /\ Stepping(p)) =>
                /\ req[p].logId \in Ids(logs)
                /\ \/ resp'[p] = StoreError /\ logs' = logs
                   \/ /\ resp'[p].status = 200
                      /\ logs' = {d \in logs : d.id # req[p].logId}
                      /\ Cardinality(logs') = Cardinality(logs) - 1]_vars

\* A record has been deleted and another is still in the store.
C13_Witness ==
    \E p \in SeqProcs :
       /\ IsDelete(p) /\ pc[p] = "done" /\ resp[p].status = 200
       /\ req[p].logId \notin Ids(logs)
       /\ logs # {}

IsBulk(p) == req[p].op = "deleteMultipleLogs"

\* C14: deleteMultipleLogs of an empty list, or of something that is not a
\* list, answers 400; of a non-empty list it removes the stored records
\* whose id is in the list and no other, and reports as deletedCount the
\* number of records it removed, which may be less than the number of ids
\* (a fault of the store set aside).
C14_DeleteEvents ==
    [][\A p \in SeqProcs :
          /\ (pc[p] = "idle" /\ IsBulk(p)') =>
                /\ logs' = logs
                /\ IF req'[p].kind # "array" \/ req'[p].logIds = {}
                      THEN pc'[p] = "done" /\ resp'[p].status = 400
                      ELSE pc'[p] = "deleteMany"
          /\ (IsBulk(p) /\ pc[p] = "deleteMany" /\ Stepping(p)) =>
                \/ resp'[p] = StoreError /\ logs' = logs
                \/ /\ resp'[p].status = 200
                   /\ logs' = {d \in logs : d.id \notin req[p].logIds}
                   /\ resp'[p].deletedCount = Cardinality(logs) - Cardinality(logs')
                   /\ resp'[p].deletedCount <= Cardinality(req[p].logIds)]_vars

\* Fewer records deleted than ids given, and a record left in the store.
C14_Witness ==
    \E p \in SeqProcs :
       /\ IsBulk(p) /\ pc[p] = "done" /\ resp[p].status = 200
       /\ resp[p].deletedCount >= 1
       /\ resp[p].deletedCount < Cardinality(req[p].logIds)
       /\ logs # {}

(***************************************************************************)
(* The properties of the records under changes of the User collection.     *)
(***************************************************************************)
\* C15: the username and the role of a record are the email and the role
\* the user had in the User collection when createUserLog looked the user
\* up; when the user is changed afterwards, the records written before keep
\* those values, in the store and in what the role filter of getUserLogs
\* matches and returns.
C15_Snapshot ==
    [][/\ \A p \in SeqProcs :
             /\ (IsCreate(p) /\ pc[p] = "findUser" /\ pc'[p] = "save") =>
                   /\ loc'[p].userLog.username = users[req[p].userId].email
                   /\ loc'[p].userLog.role = users[req[p].userId].role
             /\ (IsCreate(p) /\ pc[p] = "save" /\ resp'[p].status = 201) =>
                   \E d \in logs' \ logs :
                      /\ logs' = logs \cup {d}
                      /\ d.username = loc[p].userLog.username
                      /\ d.role = loc[p].userLog.role
             /\ Listed(p) =>
                   /\ DataIds(p) =
                         {d.id : d \in {e \in logs : req[p].role = "all"
                                                      \/ e.role = req[p].role}}
                   /\ \A i \in 1..Len(resp[p].data) : \E d \in logs :
                         /\ d.id = resp[p].data[i].id
                         /\ d.username = resp[p].data[i].username
                         /\ d.role = resp[p].data[i].role
       /\ \A d \in logs : d \in logs']_vars

\* The role filter returns a record whose user has since been given another
\* role and another email.
C15_Witness ==
    \E p \in SeqProcs :
       /\ Listed(p) /\ req[p].role = "admin"
       /\ \E i \in 1..Len(resp[p].data), d \in logs :
             /\ d.id = resp[p].data[i].id
             /\ resp[p].data[i].role = "admin"
             /\ users[d.userId].role = "user"
             /\ users[d.userId].email # resp[p].data[i].username

(***************************************************************************)
(* The properties of the failures.                                         *)
(***************************************************************************)
\* How far a handler has come.
PcRank(at) ==
    CASE at = "idle" -> 0
      [] at \in {"findUser", "find", "findById", "deleteMany", "aggregate"} -> 1
      [] at \in {"findLogin", "count", "findByIdAndDelete"} -> 2
      [] at = "save" -> 3
      [] at = "done" -> 4

\* C16: a handler that answers with an error has left the log collection as
\* it was: the collection changes only in the step in which a handler
\* answers 200 or 201, every other answer is 400, 404 or 500, and each call
\* of the store is made once, the handler going on or answering after it
\* and never going back to it.
C16_ErrorsLeaveStore ==
    [][\A p \in SeqProcs :
          /\ (Stepping(p) /\ pc'[p] = "done" /\ resp'[p].status \notin {200, 201}) =>
                /\ logs' = logs
                /\ resp'[p].status \in {400, 404, 500}
          /\ (Stepping(p) /\ pc'[p] # "done") => logs' = logs
          /\ (Stepping(p) /\ pc[p] # "done") => PcRank(pc'[p]) > PcRank(pc[p])]_vars

\* The write of a logout has failed after its lookup found a login.
C16_Witness ==
    \E p \in SeqProcs :
       /\ IsCreate(p) /\ pc[p] = "done" /\ resp[p] = StoreError
       /\ req[p].action = "logout"
       /\ loc[p].at = "save" /\ loc[p].lastLoginLog # Null
       /\ logs # {}

(***************************************************************************)
(* The properties of interleaved handlers.                                 *)
(***************************************************************************)
\* C17: when a login of the same user is saved between the lookup of a
\* logout and its save, the logout is stored with the sessionDuration
\* measured from the login its lookup found, and with none when its lookup
\* found none: it is not measured again from the newest login in the store.
C17_MeasuredFromLookup ==
    \A p \in Procs :
       (Created(p) /\ req[p].action = "logout") =>
          /\ resp[p].data.sessionDuration = loc[p].userLog.sessionDuration
          /\ loc[p].lastLoginLog = Null => resp[p].data.sessionDuration = Null
          /\ loc[p].lastLoginLog # Null =>
                resp[p].data.sessionDuration =
                   Some(resp[p].data.createdAt
                           - Val(Val(loc[p].lastLoginLog).loginTime))

\* A logout stored after a login that is newer than the one it is measured
\* from.
C17_Witness ==
    \E p \in Procs :
       /\ Created(p) /\ req[p].action = "logout"
       /\ loc[p].lastLoginLog # Null
       /\ \E n \in logs :
             /\ n.userId = req[p].userId /\ n.action = "login"
             /\ n.id < resp[p].data.id
             /\ Val(n.loginTime) > Val(Val(loc[p].lastLoginLog).loginTime)
             /\ Val(n.loginTime) <= resp[p].data.createdAt

\* C18: a deleteUserLog answers 200 only when it has removed a record
\* itself: of two deleteUserLog handlers of the same id, whatever the order
\* of their awaits, the one that finds the record gone answers 404.
C18_SuccessMeansRemoved ==
    [][\A p \in Procs :
          (IsDelete(p) /\ pc[p] = "findByIdAndDelete" /\ resp'[p].status = 200) =>
             /\ req[p].logId \in Ids(logs)
             /\ req[p].logId \notin Ids(logs')]_vars

Min(a, b) == IF a < b THEN a ELSE b
Max(a, b) == IF a > b THEN a ELSE b

\* C19: the page and the pagination of a getUserLogs response are those of
\* one state of the store, also when another handler writes or deletes
\* between the read of the page and the count: the number of records
\* returned is min(limit, max(0, totalItems - (page - 1) * limit)) and is at
\* most totalItems.
C19_PageAgreesWithCount ==
    \A p \in Procs :
       Listed(p) =>
          LET page == NumberOf(req[p].page, 1)
              limit == NumberOf(req[p].limit, 50)
              totalItems == resp[p].pagination.totalItems
          IN  /\ Len(resp[p].data) = Min(limit, Max(0, totalItems - (page - 1) * limit))
              /\ Len(resp[p].data) <= totalItems

(***************************************************************************)
(* The properties of the linkage under repeated logouts and deletions.     *)
(***************************************************************************)
\* C20: a logout does not use up the login it is linked to.  Each logout is
\* measured from the latest login of the user that is in the store when it
\* is written, whether or not an earlier logout was measured from it: two
\* logouts with no login between them are measured from the same login, a
\* logout after the deletion of the latest login is measured from the next
\* older one, and one with no login left has no sessionDuration.  The save
\* adds the logout and leaves the logins as they are.
C20_LoginNotConsumed ==
    [][\A p \in SeqProcs :
          (IsCreate(p) /\ req[p].action = "logout" /\ pc[p] = "save"
              /\ resp'[p].status = 201) =>
             LET new == resp'[p].data
                 logins == {l \in logs : l.userId = req[p].userId /\ l.action = "login"}
             IN  /\ new \notin logs
                 /\ logs' = logs \cup {new}
                 /\ logins = {} => new.sessionDuration = Null
                 /\ logins # {} =>
                       \E l \in logins :
                          /\ \A m \in logins : Val(m.loginTime) <= Val(l.loginTime)
                          /\ new.sessionDuration =
                                Some(new.createdAt - Val(l.loginTime))]_vars

\* Two logouts of a user measured from the user's only login.
C20_Witness ==
    \E a, b, l \in logs :
       /\ a.id < b.id /\ l.id < a.id
       /\ a.action = "logout" /\ b.action = "logout" /\ l.action = "login"
       /\ a.userId = l.userId /\ b.userId = l.userId
       /\ a.createdAt < b.createdAt
       /\ a.sessionDuration = Some(a.createdAt - Val(l.loginTime))
       /\ b.sessionDuration = Some(b.createdAt - Val(l.loginTime))

(***************************************************************************)
(* The properties of the records getUserLogs returns.                      *)
(***************************************************************************)
\* C21: every record getUserLogs returns has its userId, username, role and
\* ipAddress present and equal to the values stored when it was written,
\* also after its user has been changed in or removed from the User
\* collection.  A populated userId counts as equal when it names the stored
\* user.
C21_ReturnedAsStored ==
    \A p \in SeqProcs :
       Listed(p) =>
          \A i \in 1..Len(resp[p].data) :
             \E d \in logs :
                /\ d.id = resp[p].data[i].id
                /\ resp[p].data[i].userId # Null
                /\ Val(resp[p].data[i].userId).id = d.userId
                /\ resp[p].data[i].username = d.username
                /\ resp[p].data[i].role = d.role
                /\ resp[p].data[i].ipAddress = d.ipAddress
                /\ d.username # <<>> /\ d.ipAddress # <<>> /\ d.role \in RoleEnum

====
